---- MODULE Spec2Model ----
(***************************************************************************)
(* The metadata service: GET /metadata?url=..., gated by X-API-Key, with   *)
(* the YouTube oEmbed / Data API tiers in front of the generic HTML        *)
(* scraper.                                                                *)
(*                                                                         *)
(* A Go string is a sequence of one-character strings; "" is << >>.        *)
(***************************************************************************)
EXTENDS Integers, Sequences, FiniteSets, TLC

\* ------------------------------------------------------------------------
\* strings
\* ------------------------------------------------------------------------

Letters ==
    {"a","b","c","d","e","f","g","h","i","j","k","l","m",
     "n","o","p","q","r","s","t","u","v","w","x","y","z"}

Digits == {"0","1","2","3","4","5","6","7","8","9"}

HexDigits == Digits \cup {"a","b","c","d","e","f"}

\* the white space strings.TrimSpace cuts
SpaceChars == {" ", "\t", "\n", "\r"}

\* the bytes stringContainsCTLByte rejects (b < ' ' or b = 0x7f)
CTLChars == {"\t", "\n", "\r"}

\* strings.HasPrefix
HasPrefix(s, p) == Len(s) >= Len(p) /\ SubSeq(s, 1, Len(p)) = p

\* strings.Contains
Contains(s, sub) ==
    \E i \in 0..(Len(s) - Len(sub)) : SubSeq(s, i + 1, i + Len(sub)) = sub

\* strings.IndexByte, 1-based; 0 when c does not occur
Index(s, c) ==
    IF \E i \in 1..Len(s) : s[i] = c
    THEN CHOOSE i \in 1..Len(s) : s[i] = c /\ \A j \in 1..(i - 1) : s[j] # c
    ELSE 0

\* strings.LastIndex for a single byte, 1-based; 0 when c does not occur
LastIndex(s, c) ==
    IF \E i \in 1..Len(s) : s[i] = c
    THEN CHOOSE i \in 1..Len(s) : s[i] = c /\ \A j \in (i + 1)..Len(s) : s[j] # c
    ELSE 0

\* strings.Cut at a single byte
Cut(s, c) ==
    LET i == Index(s, c)
    IN  IF i = 0
        THEN [before |-> s, after |-> << >>, found |-> FALSE]
        ELSE [before |-> SubSeq(s, 1, i - 1),
              after  |-> SubSeq(s, i + 1, Len(s)),
              found  |-> TRUE]

\* strings.TrimPrefix
TrimPrefix(s, p) == IF HasPrefix(s, p) THEN SubSeq(s, Len(p) + 1, Len(s)) ELSE s

RECURSIVE TrimLeft(_)
TrimLeft(s) ==
    IF s # << >> /\ Head(s) \in SpaceChars THEN TrimLeft(Tail(s)) ELSE s

RECURSIVE TrimRight(_)
TrimRight(s) ==
    IF s # << >> /\ s[Len(s)] \in SpaceChars
    THEN TrimRight(SubSeq(s, 1, Len(s) - 1))
    ELSE s

\* strings.TrimSpace
TrimSpace(s) == TrimRight(TrimLeft(s))

\* strings.Split(s, "/")
RECURSIVE SplitSlash(_)
SplitSlash(s) ==
    LET c == Cut(s, "/")
    IN  IF c.found THEN <<c.before>> \o SplitSlash(c.after) ELSE <<s>>

\* ------------------------------------------------------------------------
\* net/url, as far as the handler uses it.  The URLs of the model are
\* written with letters, digits and . : / ? = & % ; none of these is
\* escaped by EscapedPath or by the host escaping of String, a '%' in them
\* never starts a valid escape, and there is no '#', '@' or '[' (no
\* fragment, userinfo or IPv6 literal).
\* ------------------------------------------------------------------------

\* the zero url.URL, with the error of the parse that produced it
ZeroURL ==
    [err |-> FALSE, Scheme |-> << >>, Opaque |-> << >>, Host |-> << >>,
     Path |-> << >>, ForceQuery |-> FALSE, RawQuery |-> << >>,
     OmitHost |-> FALSE]

ErrURL == [ZeroURL EXCEPT !.err = TRUE]

\* getScheme: (scheme, rest, err)
getScheme(rawURL) ==
    LET schemeChar(i) ==
            \/ rawURL[i] \in Letters
            \/ i > 1 /\ rawURL[i] \in Digits \cup {"+", "-", "."}
        none == [scheme |-> << >>, rest |-> rawURL, err |-> FALSE]
    IN  IF \A i \in 1..Len(rawURL) : schemeChar(i)
        THEN none
        ELSE LET stop == CHOOSE i \in 1..Len(rawURL) :
                            /\ ~schemeChar(i)
                            /\ \A j \in 1..(i - 1) : schemeChar(j)
             IN  IF rawURL[stop] # ":"
                 THEN none
                 ELSE IF stop = 1
                      THEN [scheme |-> << >>, rest |-> << >>, err |-> TRUE]
                      ELSE [scheme |-> SubSeq(rawURL, 1, stop - 1),
                            rest   |-> SubSeq(rawURL, stop + 1, Len(rawURL)),
                            err    |-> FALSE]

\* the bytes a host may hold unescaped (shouldEscape(c, encodeHost) = false)
HostChars ==
    Letters \cup Digits \cup
    {"-", "_", ".", "~", "!", "$", "&", "'", "(", ")", "*", "+", ",", ";",
     "=", ":", "<", ">"}

\* validOptionalPort
validOptionalPort(port) ==
    \/ port = << >>
    \/ /\ port[1] = ":"
       /\ \A i \in 2..Len(port) : port[i] \in Digits

\* parseHost (no '[' in the model's hosts): TRUE when the host is accepted
parseHostOK(host) ==
    /\ LET i == LastIndex(host, ":")
       IN  i # 0 => validOptionalPort(SubSeq(host, i, Len(host)))
    /\ \A i \in 1..Len(host) : host[i] \in HostChars

\* unescape(s, encodePath) fails: a '%' not followed by two hex digits
BadEscape(s) ==
    \E i \in 1..Len(s) :
        /\ s[i] = "%"
        /\ \/ i + 2 > Len(s)
           \/ s[i + 1] \notin HexDigits
           \/ s[i + 2] \notin HexDigits

\* url.parse(rawURL, viaRequest)
parse(rawURL, viaRequest) ==
    IF \E i \in 1..Len(rawURL) : rawURL[i] \in CTLChars THEN ErrURL
    ELSE IF rawURL = << >> /\ viaRequest THEN ErrURL
    ELSE IF rawURL = <<"*">> THEN [ZeroURL EXCEPT !.Path = <<"*">>]
    ELSE
    LET gs == getScheme(rawURL)
        nq == Cardinality({i \in 1..Len(gs.rest) : gs.rest[i] = "?"})
        force == nq = 1 /\ gs.rest[Len(gs.rest)] = "?"
        qc == Cut(gs.rest, "?")
        rest1 == IF force THEN SubSeq(gs.rest, 1, Len(gs.rest) - 1) ELSE qc.before
        query == IF force THEN << >> ELSE qc.after
        u1 == [ZeroURL EXCEPT !.Scheme = gs.scheme, !.ForceQuery = force,
                              !.RawQuery = query]
        slash == HasPrefix(rest1, <<"/">>)
        hasAuth ==
            /\ gs.scheme # << >> \/ (~viaRequest /\ ~HasPrefix(rest1, <<"/", "/", "/">>))
            /\ HasPrefix(rest1, <<"/", "/">>)
        after2 == SubSeq(rest1, 3, Len(rest1))
        si == Index(after2, "/")
        authority == IF si = 0 THEN after2 ELSE SubSeq(after2, 1, si - 1)
        rest2 == IF ~hasAuth THEN rest1
                 ELSE IF si = 0 THEN << >> ELSE SubSeq(after2, si, Len(after2))
    IN  IF gs.err THEN ErrURL
        ELSE IF ~slash /\ gs.scheme # << >> THEN [u1 EXCEPT !.Opaque = rest1]
        ELSE IF ~slash /\ viaRequest THEN ErrURL
        ELSE IF ~slash /\ Contains(Cut(rest1, "/").before, <<":">>) THEN ErrURL
        ELSE IF hasAuth /\ ~parseHostOK(authority) THEN ErrURL
        ELSE IF BadEscape(rest2) THEN ErrURL
        ELSE [u1 EXCEPT !.Host = IF hasAuth THEN authority ELSE << >>,
                        !.OmitHost = ~hasAuth /\ gs.scheme # << >> /\ slash,
                        !.Path = rest2]

\* url.ParseRequestURI
ParseRequestURI(rawURL) == parse(rawURL, TRUE)

\* url.Parse (the model's URLs hold no '#', so there is no fragment to cut)
Parse(rawURL) == parse(rawURL, FALSE)

\* (*URL).Hostname: the host without its port
Hostname(u) ==
    LET colon == Index(u.Host, ":")
    IN  IF colon = 0 THEN u.Host ELSE SubSeq(u.Host, 1, colon - 1)

\* (*URL).Query().Get(key): the first value of key in RawQuery, or ""
RECURSIVE QueryGet(_, _)
QueryGet(query, key) ==
    IF query = << >> THEN << >>
    ELSE LET c  == Cut(query, "&")
             kv == Cut(c.before, "=")
         IN  IF ~Contains(c.before, <<";">>) /\ c.before # << >> /\ kv.before = key
             THEN kv.after
             ELSE QueryGet(c.after, key)

\* (*URL).String
URLString(u) ==
    LET scheme == IF u.Scheme # << >> THEN u.Scheme \o <<":">> ELSE << >>
        auth ==
            IF u.Scheme # << >> \/ u.Host # << >>
            THEN IF u.OmitHost /\ u.Host = << >> THEN << >>
                 ELSE (IF u.Host # << >> \/ u.Path # << >> THEN <<"/", "/">> ELSE << >>)
                      \o u.Host
            ELSE << >>
        sep == IF u.Path # << >> /\ u.Path[1] # "/" /\ u.Host # << >>
               THEN <<"/">> ELSE << >>
        dot == IF scheme \o auth \o sep = << >>
                  /\ Contains(Cut(u.Path, "/").before, <<":">>)
               THEN <<".", "/">> ELSE << >>
        body == IF u.Opaque # << >> THEN u.Opaque
                ELSE auth \o sep \o dot \o u.Path
        query == IF u.ForceQuery \/ u.RawQuery # << >>
                 THEN <<"?">> \o u.RawQuery ELSE << >>
    IN  scheme \o body \o query

\* the element loop of resolvePath: dst starts "/", first = TRUE
RECURSIVE resolveElems(_, _, _)
resolveElems(elems, dst, first) ==
    IF elems = << >> THEN dst
    ELSE LET elem == Head(elems)
             str  == Tail(dst)
             idx  == LastIndex(str, "/")
         IN  IF elem = <<".">> THEN resolveElems(Tail(elems), dst, FALSE)
             ELSE IF elem = <<".", ".">>
             THEN IF idx = 0
                  THEN resolveElems(Tail(elems), <<"/">>, TRUE)
                  ELSE resolveElems(Tail(elems),
                                    <<"/">> \o SubSeq(str, 1, idx - 1), first)
             ELSE resolveElems(Tail(elems),
                               dst \o (IF first THEN << >> ELSE <<"/">>) \o elem,
                               FALSE)

\* resolvePath(base, ref)
resolvePath(base, ref) ==
    LET full == IF ref = << >> THEN base
                ELSE IF ref[1] # "/"
                     THEN SubSeq(base, 1, LastIndex(base, "/")) \o ref
                     ELSE ref
        elems == SplitSlash(full)
        last == elems[Len(elems)]
        r0 == resolveElems(elems, <<"/">>, TRUE)
        r1 == IF last = <<".">> \/ last = <<".", ".">> THEN r0 \o <<"/">> ELSE r0
    IN  IF full = << >> THEN << >>
        ELSE IF Len(r1) > 1 /\ r1[2] = "/" THEN Tail(r1) ELSE r1

\* (*URL).ResolveReference
ResolveReference(u, ref) ==
    LET url == [ref EXCEPT !.Scheme = IF ref.Scheme = << >> THEN u.Scheme ELSE @]
    IN  IF ref.Scheme # << >> \/ ref.Host # << >>
        THEN [url EXCEPT !.Path = resolvePath(ref.Path, << >>)]
        ELSE IF ref.Opaque # << >>
        THEN [url EXCEPT !.Host = << >>, !.Path = << >>]
        ELSE LET url2 == IF ref.Path = << >> /\ ~ref.ForceQuery /\ ref.RawQuery = << >>
                         THEN [url EXCEPT !.RawQuery = u.RawQuery]
                         ELSE url
             IN  IF ref.Path = << >> /\ u.Opaque # << >>
                 THEN [url2 EXCEPT !.Opaque = u.Opaque, !.Host = << >>, !.Path = << >>]
                 ELSE [url2 EXCEPT !.Host = u.Host,
                                   !.Path = resolvePath(u.Path, ref.Path)]

\* ------------------------------------------------------------------------
\* the parsed HTML document, as goquery sees it: its elements in document
\* order.  An element is [tag, attrs, text]; attrs is a record holding the
\* attributes the element has.  The values of property and name, which the
\* selectors match literally, are plain strings; content and src are Go
\* strings.
\* ------------------------------------------------------------------------

\* doc.Find("tag[attr='val']"), or doc.Find("tag") when attr = ""
Find(doc, tag, attr, val) ==
    LET matches(n) ==
            /\ n.tag = tag
            /\ attr # "" => (attr \in DOMAIN n.attrs /\ n.attrs[attr] = val)
    IN  SelectSeq(doc, matches)

\* Selection.Text: the text of the matched elements, concatenated
RECURSIVE Text(_)
Text(sel) == IF sel = << >> THEN << >> ELSE Head(sel).text \o Text(Tail(sel))

\* getFirstContent without strings.TrimSpace
getFirstContentUntrimmed(doc, attr, val) ==
    LET sel == Find(doc, "meta", attr, val)
    IN  IF sel # << >> /\ "content" \in DOMAIN Head(sel).attrs
        THEN Head(sel).attrs.content
        ELSE << >>

\* the content of the first element the selector matches, trimmed
getFirstContent(doc, attr, val) ==
    LET sel == Find(doc, "meta", attr, val)
    IN  IF sel # << >> /\ "content" \in DOMAIN Head(sel).attrs
        THEN TrimSpace(Head(sel).attrs.content)
        ELSE << >>

\* Metadata{}
ZeroMetadata ==
    [URL |-> << >>, PageName |-> << >>, Title |-> << >>,
     Description |-> << >>, Images |-> << >>]

\* the Each loop over meta[property='og:image']
RECURSIVE ogImages(_)
ogImages(sel) ==
    IF sel = << >> THEN << >>
    ELSE (IF "content" \in DOMAIN Head(sel).attrs
          THEN <<Head(sel).attrs.content>> ELSE << >>)
         \o ogImages(Tail(sel))

\* the Each loop over img, appending src as it stands
RECURSIVE imgSourcesUnresolved(_, _)
imgSourcesUnresolved(sel, parsedURL) ==
    IF sel = << >> THEN << >>
    ELSE (IF "src" \in DOMAIN Head(sel).attrs /\ ~Parse(Head(sel).attrs.src).err
          THEN <<Head(sel).attrs.src>>
          ELSE << >>)
         \o imgSourcesUnresolved(Tail(sel), parsedURL)

\* the Each loop over img
RECURSIVE imgSources(_, _)
imgSources(sel, parsedURL) ==
    IF sel = << >> THEN << >>
    ELSE (IF "src" \in DOMAIN Head(sel).attrs /\ ~Parse(Head(sel).attrs.src).err
          THEN <<URLString(ResolveReference(parsedURL, Parse(Head(sel).attrs.src)))>>
          ELSE << >>)
         \o imgSources(Tail(sel), parsedURL)

\* the title of the scraped record
scrapeTitle(doc) ==
    LET og == getFirstContent(doc, "property", "og:title")
    IN  IF og = << >> THEN TrimSpace(Text(Find(doc, "title", "", ""))) ELSE og

\* the images of the scraped record
scrapeImages(doc, parsedURL) ==
    LET og == ogImages(Find(doc, "meta", "property", "og:image"))
    IN  IF Len(og) = 0 THEN imgSources(Find(doc, "img", "", ""), parsedURL) ELSE og

\* the record the generic scraper builds from a parsed document
scrape(doc, rawURL, parsedURL) ==
    LET site == getFirstContent(doc, "property", "og:site_name")
        desc == getFirstContent(doc, "property", "og:description")
    IN  [URL         |-> rawURL,
         PageName    |-> IF site = << >> THEN parsedURL.Host ELSE site,
         Title       |-> scrapeTitle(doc),
         Description |-> IF desc = << >>
                         THEN getFirstContent(doc, "name", "description")
                         ELSE desc,
         Images      |-> scrapeImages(doc, parsedURL)]

\* isYouTubeURL
isYouTubeURL(u) ==
    \/ Contains(Hostname(u), <<"y", "o", "u", "t", "u", "b", "e", ".", "c", "o", "m">>)
    \/ Contains(Hostname(u), <<"y", "o", "u", "t", "u", ".", "b", "e">>)

\* extractYouTubeID reading the v parameter whatever the host
extractYouTubeIDFromQuery(u) == QueryGet(u.RawQuery, <<"v">>)

\* extractYouTubeID
extractYouTubeID(u) ==
    IF Contains(u.Host, <<"y", "o", "u", "t", "u", ".", "b", "e">>)
    THEN TrimPrefix(u.Path, <<"/">>)
    ELSE QueryGet(u.RawQuery, <<"v">>)

\* ------------------------------------------------------------------------
\* the replies of the outbound calls.  A reply is
\*   [err, status, bad, ...]: err = the client returned an error (transport
\*   failure or timeout), status = the status code, bad = the body could not
\*   be decoded (JSON) or parsed (HTML); then the decoded body.
\* ------------------------------------------------------------------------

StatusOK == 200
StatusBadRequest == 400
StatusUnauthorized == 401
StatusInternalServerError == 500
StatusBadGateway == 502

\* fetchYouTubeOEmbed, given the reply to its GET: [err, meta]
fetchYouTubeOEmbed(videoURL, reply) ==
    IF reply.err \/ reply.status # StatusOK THEN [err |-> TRUE, meta |-> ZeroMetadata]
    ELSE IF reply.bad THEN [err |-> TRUE, meta |-> ZeroMetadata]
    ELSE [err  |-> FALSE,
          meta |-> [URL         |-> videoURL,
                    PageName    |-> reply.oe.Provider,
                    Title       |-> reply.oe.Title,
                    Description |-> reply.oe.AuthorName,
                    Images      |-> <<reply.oe.ThumbnailURL>>]]

\* snip.Thumbnails["high"].URL: the zero value when the key is absent
highThumb(snip) ==
    IF "high" \in DOMAIN snip.Thumbnails THEN snip.Thumbnails.high ELSE << >>

\* fetchYouTubeDataAPI, given the reply to its GET: [err, meta]
fetchYouTubeDataAPI(videoID, reply) ==
    IF reply.err \/ reply.status # StatusOK THEN [err |-> TRUE, meta |-> ZeroMetadata]
    ELSE IF reply.bad THEN [err |-> TRUE, meta |-> ZeroMetadata]
    ELSE IF Len(reply.items) = 0 THEN [err |-> TRUE, meta |-> ZeroMetadata]
    ELSE LET snip == reply.items[1]
         IN  [err  |-> FALSE,
              meta |-> [URL         |-> videoID,
                        PageName    |-> snip.ChannelTitle,
                        Title       |-> snip.Title,
                        Description |-> snip.Description,
                        Images      |-> <<highThumb(snip)>>]]

\* fetchFailed without the check of the status code
fetchFailedOnlyErr(reply) == reply.err

\* resp.StatusCode < 200 || resp.StatusCode >= 300, or the client's error
fetchFailed(reply) == reply.err \/ reply.status < 200 \/ reply.status >= 300

\* ------------------------------------------------------------------------
\* inputs: what a client may send and what the outside world may answer
\* ------------------------------------------------------------------------

\* the longest document of the model, in elements
MaxNodes == 2

\* the API_KEY the service was started with (main refuses to start without)
ServiceKey == <<"k", "1">>

\* X-API-Key as sent: absent or empty (Header.Get gives "" for both), a
\* proper prefix of the service key, the service key
HeaderKeys == {<< >>, <<"k">>, ServiceKey}

\* YT_API_KEY: unset, or set
ProviderKeys == {<< >>, <<"y">>}

URL_EMPTY == << >>
\* x.test/p
URL_NOSCHEME == <<"x", ".", "t", "e", "s", "t", "/", "p">>
\* https://x.test/p
URL_PAGE == <<"h", "t", "t", "p", "s", ":", "/", "/", "x", ".", "t", "e", "s", "t", "/", "p">>
\* /a.png
URL_PATH == <<"/", "a", ".", "p", "n", "g">>
\* http:foo
URL_OPAQUE == <<"h", "t", "t", "p", ":", "f", "o", "o">>
\* https://youtube.com/watch?v=ab
URL_WATCH == <<"h", "t", "t", "p", "s", ":", "/", "/", "y", "o", "u", "t", "u", "b", "e", ".", "c", "o", "m", "/", "w", "a", "t", "c", "h", "?", "v", "=", "a", "b">>
\* https://youtu.be/ab
URL_SHORT == <<"h", "t", "t", "p", "s", ":", "/", "/", "y", "o", "u", "t", "u", ".", "b", "e", "/", "a", "b">>
\* https://www.youtube.com/
URL_NOID == <<"h", "t", "t", "p", "s", ":", "/", "/", "w", "w", "w", ".", "y", "o", "u", "t", "u", "b", "e", ".", "c", "o", "m", "/">>

\* https://x.test/youtu.be
URL_DECOY == <<"h", "t", "t", "p", "s", ":", "/", "/", "x", ".", "t", "e", "s", "t", "/", "y", "o", "u", "t", "u", ".", "b", "e">>
\* https://youtu.be:8/?v=ab
URL_PORT == <<"h", "t", "t", "p", "s", ":", "/", "/", "y", "o", "u", "t", "u", ".", "b", "e", ":", "8", "/", "?", "v", "=", "a", "b">>

\* the url query parameter as sent (QueryParam gives "" when it is missing)
RawURLs ==
    {URL_EMPTY, URL_NOSCHEME, URL_PAGE, URL_PATH, URL_OPAQUE,
     URL_WATCH, URL_SHORT, URL_NOID, URL_DECOY, URL_PORT}

\* status codes of the replies
ReplyStatuses == {199, 200, 204, 300, 404}

\* oEmbedResponse{}: what decoding "{}" leaves
ZeroOEmbed ==
    [Title |-> << >>, AuthorName |-> << >>, ThumbnailURL |-> << >>,
     Provider |-> << >>]

FullOEmbed ==
    [Title |-> <<"T">>, AuthorName |-> <<"A">>, ThumbnailURL |-> <<"h", "t", "t", "p", "s", ":", "/", "/", "i", ".", "t", "e", "s", "t", "/", "t">>,
     Provider |-> <<"Y", "T">>]

\* a reply that never arrived: the client's error
FailedReply == [err |-> TRUE, status |-> 0, bad |-> FALSE]

\* a reply with a status and a body nobody decodes
StatusReply(s) == [err |-> FALSE, status |-> s, bad |-> FALSE]

\* the replies of the oEmbed endpoint
EmbedReplies ==
    {[oe |-> ZeroOEmbed] @@ FailedReply}
    \cup {[oe |-> ZeroOEmbed] @@ StatusReply(s) : s \in ReplyStatuses \ {200, 199, 300}}
    \cup {[oe |-> ZeroOEmbed] @@ [StatusReply(200) EXCEPT !.bad = TRUE]}
    \cup {[oe |-> oe] @@ StatusReply(200) : oe \in {ZeroOEmbed, FullOEmbed}}

FullSnippet ==
    [Title |-> <<"V">>, Description |-> <<"D">>, ChannelTitle |-> <<"C">>,
     Thumbnails |-> [high |-> <<"h", "t", "t", "p", "s", ":", "/", "/", "i", ".", "t", "e", "s", "t", "/", "h">>, default |-> <<"h", "t", "t", "p", "s", ":", "/", "/", "i", ".", "t", "e", "s", "t", "/", "d">>]]

\* a snippet without channelTitle and without a "high" thumbnail
BareSnippet ==
    [Title |-> <<"W">>, Description |-> << >>, ChannelTitle |-> << >>,
     Thumbnails |-> [default |-> <<"h", "t", "t", "p", "s", ":", "/", "/", "i", ".", "t", "e", "s", "t", "/", "d">>]]

\* the replies of the Data API
DataReplies ==
    {[items |-> << >>] @@ FailedReply}
    \cup {[items |-> << >>] @@ StatusReply(s) : s \in ReplyStatuses \ {200, 199, 300}}
    \cup {[items |-> << >>] @@ [StatusReply(200) EXCEPT !.bad = TRUE]}
    \cup {[items |-> it] @@ StatusReply(200) :
            it \in {<< >>, <<FullSnippet>>, <<BareSnippet, FullSnippet>>}}

\* the elements a page of the model is made of
Meta(attr, val, content) ==
    [tag |-> "meta", attrs |-> (attr :> val) @@ [content |-> content], text |-> << >>]

MetaNoContent(attr, val) ==
    [tag |-> "meta", attrs |-> (attr :> val), text |-> << >>]

Title(text) == [tag |-> "title", attrs |-> [lang |-> "en"], text |-> text]

Img(src) == [tag |-> "img", attrs |-> [src |-> src], text |-> << >>]

ImgNoSrc == [tag |-> "img", attrs |-> [alt |-> "x"], text |-> << >>]

NodePool ==
    {Meta("property", "og:title", <<" ", "H", "i", " ">>),
     Meta("property", "og:title", <<" ">>),
     MetaNoContent("property", "og:title"),
     Title(<<" ", "T", "\n">>),
     Meta("property", "og:site_name", <<"S">>),
     Meta("name", "description", <<"d">>),
     Meta("property", "og:image", <<"h", "t", "t", "p", "s", ":", "/", "/", "i", ".", "t", "e", "s", "t", "/", "a">>),
     Meta("property", "og:image", << >>),
     MetaNoContent("property", "og:image"),
     Img(<<"/", "a", ".", "p", "n", "g">>),
     Img(<<"b", ".", "p", "n", "g">>),
     Img(<<"%", ".", "p", "n", "g">>),
     ImgNoSrc}

\* every document of at most MaxNodes elements
Docs == UNION {[1..k -> NodePool] : k \in 0..MaxNodes}

\* the replies of the target of the generic fetch
TargetReplies ==
    {[doc |-> << >>] @@ FailedReply}
    \cup {[doc |-> << >>] @@ StatusReply(s) : s \in ReplyStatuses \ {200, 204}}
    \cup {[doc |-> << >>] @@ [StatusReply(200) EXCEPT !.bad = TRUE]}
    \cup {[doc |-> d] @@ StatusReply(200) : d \in Docs}
    \cup {[doc |-> << >>] @@ StatusReply(204)}

\* ------------------------------------------------------------------------
\* state
\* ------------------------------------------------------------------------

VARIABLES
    svcAPIKey,  \* main's svcAPIKey, what apiKeyAuthMiddleware compares with
    ytAPIKey,   \* main's ytAPIKey, what getMetadataHandler was built with
    req         \* the requests: req[r] is the state of request r

vars == <<svcAPIKey, ytAPIKey, req>>

\* a request nobody has sent yet
IdleRequest ==
    [pc        |-> "idle",      \* idle, middleware, handler, embed, data,
                                \* fetch (waiting for that reply), done
     key       |-> << >>,       \* the X-API-Key header
     rawURL    |-> << >>,       \* the url query parameter
     parsedURL |-> ZeroURL,
     videoID   |-> << >>,
     calls     |-> << >>,       \* the outbound calls issued, in order
     embedRes  |-> [oe |-> ZeroOEmbed] @@ StatusReply(0),
     dataRes   |-> [items |-> << >>] @@ StatusReply(0),
     fetchRes  |-> [doc |-> << >>] @@ StatusReply(0),
     out       |-> << >>]       \* the responses written, in order

Requests == DOMAIN req

Init ==
    /\ svcAPIKey = ServiceKey
    /\ ytAPIKey \in ProviderKeys
    /\ req = [r \in {1} |-> IdleRequest]

\* map[string]string{"error": msg}
errorBody(msg) == [kind |-> "error", error |-> msg, meta |-> ZeroMetadata]

\* a Metadata record as the body
metaBody(meta) == [kind |-> "metadata", error |-> "", meta |-> meta]

\* c.JSON(code, body), and the handler returns
JSON(rq, code, body) ==
    [rq EXCEPT !.pc = "done", !.out = Append(@, [status |-> code, body |-> body])]

\* ------------------------------------------------------------------------
\* operations
\* ------------------------------------------------------------------------

\* a client sends GET /metadata
Request(r) ==
    /\ req[r].pc = "idle"
    /\ \E key \in HeaderKeys, url \in RawURLs :
          req' = [req EXCEPT ![r] = [@ EXCEPT !.pc = "middleware",
                                              !.key = key, !.rawURL = url]]
    /\ UNCHANGED <<svcAPIKey, ytAPIKey>>

\* keyRejected checking only that a key was sent
keyRejectedOnlyEmpty(key, expectedKey) == key = << >>

\* key == "" || key != expectedKey
keyRejected(key, expectedKey) == key = << >> \/ key # expectedKey

apiKeyAuthMiddleware(r) ==
    /\ req[r].pc = "middleware"
    /\ req' = [req EXCEPT ![r] =
                  IF keyRejected(@.key, svcAPIKey)
                  THEN JSON(@, StatusUnauthorized, errorBody("invalid or missing API key"))
                  ELSE [@ EXCEPT !.pc = "handler"]]
    /\ UNCHANGED <<svcAPIKey, ytAPIKey>>

\* client.Do can reach the network: the transport takes http and https only
\* and refuses a URL without a host
canSend(u) == u.Scheme \in {<<"h", "t", "t", "p">>, <<"h", "t", "t", "p", "s">>} /\ u.Host # << >>

\* the generic scraper up to client.Do: http.NewRequest parses
\* parsedURL.String() again
startScrape(rq) ==
    IF Parse(URLString(rq.parsedURL)).err
    THEN JSON(rq, StatusInternalServerError, errorBody("failed to create request"))
    ELSE [rq EXCEPT !.pc = "fetch", !.calls = Append(@, "generic")]

\* the handler up to its first outbound call
startHandler(rq) ==
    IF rq.rawURL = << >>
    THEN JSON(rq, StatusBadRequest, errorBody("missing url parameter"))
    ELSE LET parsed == ParseRequestURI(rq.rawURL)
         IN  IF parsed.err
             THEN JSON(rq, StatusBadRequest, errorBody("invalid url"))
             ELSE IF isYouTubeURL(parsed)
             THEN [rq EXCEPT !.parsedURL = parsed, !.pc = "embed",
                             !.calls = Append(@, "embed")]
             ELSE startScrape([rq EXCEPT !.parsedURL = parsed])

\* getMetadataHandler reading the url parameter from a variable that all the
\* requests share
getMetadataHandlerSharedURL(r) ==
    /\ req[r].pc = "handler"
    /\ \E q \in Requests :
          /\ req[q].pc # "idle"
          /\ req' = [req EXCEPT ![r] =
                        [startHandler([@ EXCEPT !.rawURL = req[q].rawURL])
                            EXCEPT !.rawURL = req[r].rawURL]]
    /\ UNCHANGED <<svcAPIKey, ytAPIKey>>

getMetadataHandler(r) ==
    /\ req[r].pc = "handler"
    /\ req' = [req EXCEPT ![r] = startHandler(@)]
    /\ UNCHANGED <<svcAPIKey, ytAPIKey>>

\* afterOEmbed without the return on success: the next tier runs anyway
afterOEmbedNoReturn(rq, reply, apiKey) ==
    LET got == [rq EXCEPT !.embedRes = reply]
    IN  IF apiKey # << >>
        THEN [got EXCEPT !.videoID = extractYouTubeID(rq.parsedURL),
                         !.pc = "data", !.calls = Append(@, "data")]
        ELSE startScrape(got)

\* afterOEmbed without the check of the provider key
afterOEmbedNoKeyCheck(rq, reply, apiKey) ==
    LET res == fetchYouTubeOEmbed(rq.rawURL, reply)
        got == [rq EXCEPT !.embedRes = reply]
    IN  IF ~res.err THEN JSON(got, StatusOK, metaBody(res.meta))
        ELSE [got EXCEPT !.videoID = extractYouTubeID(rq.parsedURL),
                         !.pc = "data", !.calls = Append(@, "data")]

\* the handler from the return of fetchYouTubeOEmbed to its next call
afterOEmbed(rq, reply, apiKey) ==
    LET res == fetchYouTubeOEmbed(rq.rawURL, reply)
        got == [rq EXCEPT !.embedRes = reply]
    IN  IF ~res.err THEN JSON(got, StatusOK, metaBody(res.meta))
        ELSE IF apiKey # << >>
        THEN [got EXCEPT !.videoID = extractYouTubeID(rq.parsedURL),
                         !.pc = "data", !.calls = Append(@, "data")]
        ELSE startScrape(got)

oEmbedReturns(r) ==
    /\ req[r].pc = "embed"
    /\ \E reply \in EmbedReplies :
          req' = [req EXCEPT ![r] = afterOEmbed(@, reply, ytAPIKey)]
    /\ UNCHANGED <<svcAPIKey, ytAPIKey>>

\* afterDataAPI answering with the provider's failure instead of going on
afterDataAPISurfacesError(rq, reply) ==
    LET res == fetchYouTubeDataAPI(rq.videoID, reply)
        got == [rq EXCEPT !.dataRes = reply]
    IN  IF ~res.err THEN JSON(got, StatusOK, metaBody(res.meta))
        ELSE JSON(got, StatusBadGateway, errorBody("failed to fetch target"))

\* afterDataAPI trying the provider API a second time before going on
afterDataAPIRetries(rq, reply) ==
    LET res == fetchYouTubeDataAPI(rq.videoID, reply)
        got == [rq EXCEPT !.dataRes = reply]
        isData(c) == c = "data"
    IN  IF ~res.err THEN JSON(got, StatusOK, metaBody(res.meta))
        ELSE IF Len(SelectSeq(rq.calls, isData)) < 2
        THEN [got EXCEPT !.calls = Append(@, "data")]
        ELSE startScrape(got)

\* afterDataAPI handing the request URL to fetchYouTubeDataAPI in place of
\* the video ID
afterDataAPIWithURL(rq, reply) ==
    LET res == fetchYouTubeDataAPI(rq.rawURL, reply)
        got == [rq EXCEPT !.dataRes = reply]
    IN  IF ~res.err THEN JSON(got, StatusOK, metaBody(res.meta))
        ELSE startScrape(got)

\* the handler from the return of fetchYouTubeDataAPI to its next call
afterDataAPI(rq, reply) ==
    LET res == fetchYouTubeDataAPI(rq.videoID, reply)
        got == [rq EXCEPT !.dataRes = reply]
    IN  IF ~res.err THEN JSON(got, StatusOK, metaBody(res.meta))
        ELSE startScrape(got)

dataAPIReturns(r) ==
    /\ req[r].pc = "data"
    /\ \E reply \in DataReplies :
          req' = [req EXCEPT ![r] = afterDataAPI(@, reply)]
    /\ UNCHANGED <<svcAPIKey, ytAPIKey>>

\* afterFetch without the return after the 502: the handler goes on to the
\* parse and answers again
afterFetchNoReturn(rq, reply) ==
    LET got   == [rq EXCEPT !.fetchRes = reply]
        first == IF fetchFailed(reply)
                 THEN JSON(got, StatusBadGateway, errorBody("failed to fetch target"))
                 ELSE got
    IN  IF reply.bad \/ reply.err
        THEN JSON(first, StatusInternalServerError, errorBody("failed to parse html"))
        ELSE JSON(first, StatusOK, metaBody(scrape(reply.doc, rq.rawURL, rq.parsedURL)))

\* the handler from the return of client.Do to its end
afterFetch(rq, reply) ==
    LET got == [rq EXCEPT !.fetchRes = reply]
    IN  IF fetchFailed(reply)
        THEN JSON(got, StatusBadGateway, errorBody("failed to fetch target"))
        ELSE IF reply.bad
        THEN JSON(got, StatusInternalServerError, errorBody("failed to parse html"))
        ELSE JSON(got, StatusOK, metaBody(scrape(reply.doc, rq.rawURL, rq.parsedURL)))

targetReturns(r) ==
    /\ req[r].pc = "fetch"
    /\ \E reply \in TargetReplies :
          /\ ~canSend(Parse(URLString(req[r].parsedURL))) => reply.err
          /\ req' = [req EXCEPT ![r] = afterFetch(@, reply)]
    /\ UNCHANGED <<svcAPIKey, ytAPIKey>>

Next ==
    \/ \E r \in Requests : Request(r)
    \/ \E r \in Requests : apiKeyAuthMiddleware(r)
    \/ \E r \in Requests : getMetadataHandler(r)
    \/ \E r \in Requests : oEmbedReturns(r)
    \/ \E r \in Requests : dataAPIReturns(r)
    \/ \E r \in Requests : targetReturns(r)

Spec == Init /\ [][Next]_vars

\* ------------------------------------------------------------------------
\* the same server over a smaller choice of requests and target replies, for
\* the properties of whole runs
\* ------------------------------------------------------------------------

FewURLs == {URL_EMPTY, URL_NOSCHEME, URL_PAGE, URL_WATCH, URL_NOID}

FewTargetReplies ==
    {[doc |-> << >>] @@ FailedReply,
     [doc |-> << >>] @@ StatusReply(404),
     [doc |-> << >>] @@ [StatusReply(200) EXCEPT !.bad = TRUE],
     [doc |-> << >>] @@ StatusReply(200),
     [doc |-> <<Title(<<" ", "T", "\n">>)>>] @@ StatusReply(200)}

RequestFew(r) ==
    /\ req[r].pc = "idle"
    /\ \E key \in HeaderKeys, url \in FewURLs :
          req' = [req EXCEPT ![r] = [@ EXCEPT !.pc = "middleware",
                                              !.key = key, !.rawURL = url]]
    /\ UNCHANGED <<svcAPIKey, ytAPIKey>>

targetReturnsFew(r) ==
    /\ req[r].pc = "fetch"
    /\ \E reply \in FewTargetReplies :
          /\ ~canSend(Parse(URLString(req[r].parsedURL))) => reply.err
          /\ req' = [req EXCEPT ![r] = afterFetch(@, reply)]
    /\ UNCHANGED <<svcAPIKey, ytAPIKey>>

NextFew ==
    \/ \E r \in Requests : RequestFew(r)
    \/ \E r \in Requests : apiKeyAuthMiddleware(r)
    \/ \E r \in Requests : getMetadataHandler(r)
    \/ \E r \in Requests : oEmbedReturns(r)
    \/ \E r \in Requests : dataAPIReturns(r)
    \/ \E r \in Requests : targetReturnsFew(r)

\* the server runs every handler it started, and each outbound call returns:
\* the three clients carry a Timeout, so client.Get and client.Do come back
\* with a reply or an error.  The step of a request at "handler", "embed",
\* "data" or "fetch" is enabled exactly while the request is there and moves
\* it on, so weak fairness of that step says that the request is infinitely
\* often somewhere else.
Fairness ==
    \A r \in {1} :
        /\ WF_vars(apiKeyAuthMiddleware(r))
        /\ []<>(req[r].pc # "handler")
        /\ []<>(req[r].pc # "embed")
        /\ []<>(req[r].pc # "data")
        /\ []<>(req[r].pc # "fetch")

LiveSpec == Init /\ [][NextFew]_vars /\ Fairness

\* two requests in flight at once: Echo serves each request on a goroutine
\* of its own
ConcInit ==
    /\ svcAPIKey = ServiceKey
    /\ ytAPIKey \in ProviderKeys
    /\ req = [r \in {1, 2} |-> IdleRequest]

ConcSpec == ConcInit /\ [][NextFew]_vars

\* ------------------------------------------------------------------------
\* properties
\* ------------------------------------------------------------------------

\* the outbound call `kind` of the request was issued
Called(rq, kind) == \E i \in 1..Len(rq.calls) : rq.calls[i] = kind

\* ... and has returned: the handler waits for one call at a time
Returned(rq, kind) ==
    /\ Called(rq, kind)
    /\ rq.pc # (IF kind = "generic" THEN "fetch" ELSE kind)

\* the request passed the middleware and the handler has run
Handled(rq) == rq.pc \in {"embed", "data", "fetch", "done"} /\ rq.key = svcAPIKey

\* an absolute URL: it parses, and has a scheme and a host
AbsoluteURL(raw) ==
    LET u == Parse(raw) IN ~u.err /\ u.Scheme # << >> /\ u.Host # << >>

\* the reply of a provider call made the call fail
ProviderFailed(reply) == reply.err \/ reply.status # 200 \/ reply.bad

EmbedFailed(rq) == Returned(rq, "embed") /\ ProviderFailed(rq.embedRes)

EmbedSucceeded(rq) == Returned(rq, "embed") /\ ~ProviderFailed(rq.embedRes)

DataFailed(rq) ==
    /\ Returned(rq, "data")
    /\ ProviderFailed(rq.dataRes) \/ rq.dataRes.items = << >>

\* the response of the generic path to the reply the target gave
GenericResponse(rq) ==
    IF rq.fetchRes.err \/ rq.fetchRes.status \notin 200..299
    THEN [status |-> 502, body |-> errorBody("failed to fetch target")]
    ELSE IF rq.fetchRes.bad
    THEN [status |-> 500, body |-> errorBody("failed to parse html")]
    ELSE [status |-> 200,
          body |-> metaBody(scrape(rq.fetchRes.doc, rq.rawURL, rq.parsedURL))]

\* a 200 response of the generic scraper
Scraped(rq) ==
    /\ rq.pc = "done"
    /\ Returned(rq, "generic")
    /\ rq.out[1].status = 200

\* an outbound call of the request went out to the network: client.Do on a
\* URL the transport refuses fails before anything is sent
ReachedNetwork(rq) ==
    \/ Called(rq, "embed")
    \/ Called(rq, "data")
    \/ Called(rq, "generic") /\ canSend(Parse(URLString(rq.parsedURL)))

\* C1: a request whose url is missing, empty or no absolute URL (scheme and
\* host) is answered 400, and no outbound call is ever made for it.
C1_InvalidURLIs400 ==
    \A r \in Requests :
        LET rq == req[r]
        IN  Handled(rq) /\ ~AbsoluteURL(rq.rawURL) =>
                /\ ~ReachedNetwork(rq)
                /\ rq.pc = "done" => rq.out[1].status = 400

\* C2: once the embed call of a request has succeeded, the request is over
\* with one response, 200 with the record mapped from the embed reply, and
\* the embed call is the only outbound call, provider key or not.
C2_EmbedSuccessIsFinal ==
    \A r \in Requests :
        LET rq == req[r]
        IN  EmbedSucceeded(rq) =>
                /\ rq.pc = "done"
                /\ rq.calls = <<"embed">>
                /\ rq.out = <<[status |-> 200,
                               body |-> metaBody(
                                   [URL         |-> rq.rawURL,
                                    PageName    |-> rq.embedRes.oe.Provider,
                                    Title       |-> rq.embedRes.oe.Title,
                                    Description |-> rq.embedRes.oe.AuthorName,
                                    Images      |-> <<rq.embedRes.oe.ThumbnailURL>>])]>>

\* the embed call succeeded although a provider key is configured
C2_Witness ==
    \E r \in Requests :
        /\ EmbedSucceeded(req[r])
        /\ ytAPIKey # << >>
        /\ req[r].rawURL = URL_WATCH
        /\ req[r].out[1].body.meta.Title = <<"T">>

\* C3: when the embed call failed and no provider key is configured, the
\* Data API is never called, the generic fetch is issued exactly once, and
\* the response is the one of the generic path.
C3_NoKeyFallsToGeneric ==
    \A r \in Requests :
        LET rq == req[r]
        IN  EmbedFailed(rq) /\ ytAPIKey = << >> =>
                /\ rq.calls = <<"embed", "generic">>
                /\ rq.pc \in {"fetch", "done"}
                /\ rq.pc = "done" => rq.out = <<GenericResponse(rq)>>

\* without a key, a failed embed call was followed by a successful scrape
C3_Witness ==
    \E r \in Requests :
        /\ EmbedFailed(req[r])
        /\ ytAPIKey = << >>
        /\ Scraped(req[r])
        /\ req[r].fetchRes.doc # << >>

\* C4: with an empty video ID the Data API client fails without a network
\* call: no GET to the Data API is ever issued with an empty ID.
C4_EmptyIDNoDataCall ==
    \A r \in Requests :
        Called(req[r], "data") => req[r].videoID # << >>

\* C5: the record of every 200 response has a non-empty url and a non-empty
\* page_name, whichever tier built it.
C5_URLAndPageNameNonEmpty ==
    \A r \in Requests :
        LET rq == req[r]
        IN  rq.pc = "done" /\ rq.out[1].status = 200 =>
                /\ rq.out[1].body.meta.URL # << >>
                /\ rq.out[1].body.meta.PageName # << >>

\* C6: a request whose X-API-Key is absent, empty or different from the
\* service key never gets past the middleware: it is answered 401 with an
\* error body, its URL is never parsed and no outbound call is made.
C6_BadKeyIs401 ==
    \A r \in Requests :
        LET rq == req[r]
        IN  /\ rq.pc \notin {"idle", "middleware"}
            /\ rq.key = << >> \/ rq.key # svcAPIKey
            =>  /\ rq.pc = "done"
                /\ rq.out = <<[status |-> 401,
                               body |-> errorBody("invalid or missing API key")]>>
                /\ rq.calls = << >>
                /\ rq.parsedURL = ZeroURL

\* a key that is a proper prefix of the service key was answered 401
C6_Witness ==
    \E r \in Requests :
        /\ req[r].pc = "done"
        /\ req[r].key # << >>
        /\ req[r].key # svcAPIKey
        /\ req[r].rawURL = URL_PAGE
        /\ req[r].out[1].status = 401

\* C7: when the embed call failed and the Data API call, if made, failed
\* too, the response is the response of the generic path, whatever the
\* provider errors were.
C7_ProviderErrorsNotSurfaced ==
    \A r \in Requests :
        LET rq == req[r]
        IN  /\ rq.pc = "done"
            /\ EmbedFailed(rq)
            /\ Called(rq, "data") => DataFailed(rq)
            =>  /\ rq.calls[Len(rq.calls)] = "generic"
                /\ rq.out = <<GenericResponse(rq)>>
                /\ rq.out[1].body.error \in
                       {"", "failed to fetch target", "failed to parse html"}

\* the embed reply did not decode, the Data API found no video, and the
\* page was scraped
C7_Witness ==
    \E r \in Requests :
        /\ Scraped(req[r])
        /\ req[r].embedRes.bad
        /\ Returned(req[r], "data")
        /\ ~ProviderFailed(req[r].dataRes)
        /\ req[r].dataRes.items = << >>
        /\ req[r].fetchRes.doc # << >>

\* C8: once the generic fetch has returned, the request is over with one
\* response: 502 without extraction when the fetch failed or was not 2xx,
\* 500 when the body did not parse, 200 with the extracted record otherwise.
C8_GenericOutcomes ==
    \A r \in Requests :
        LET rq == req[r]
            rp == rq.fetchRes
            ok == ~rp.err /\ rp.status >= 200 /\ rp.status <= 299
        IN  Returned(rq, "generic") =>
                /\ rq.pc = "done"
                /\ Len(rq.out) = 1
                /\ ~ok => /\ rq.out[1].status = 502
                          /\ rq.out[1].body.kind = "error"
                          /\ rq.out[1].body.meta = ZeroMetadata
                /\ ok /\ rp.bad => /\ rq.out[1].status = 500
                                   /\ rq.out[1].body.kind = "error"
                /\ ok /\ ~rp.bad =>
                       /\ rq.out[1].status = 200
                       /\ rq.out[1].body =
                              metaBody(scrape(rp.doc, rq.rawURL, rq.parsedURL))

\* a 204 reply of the target was scraped into a 200 response
C8_Witness ==
    \E r \in Requests :
        /\ Scraped(req[r])
        /\ req[r].fetchRes.status = 204
        /\ req[r].calls = <<"generic">>

\* the og:title elements of a document
OgTitles(doc) == Find(doc, "meta", "property", "og:title")

\* the trimmed text of the title elements of a document
PlainTitle(doc) == TrimSpace(Text(Find(doc, "title", "", "")))

\* the content attribute of an element, "" when it has none
ContentOf(n) == IF "content" \in DOMAIN n.attrs THEN n.attrs.content ELSE << >>

\* C9 as claimed: on a page with an og:title tag the title is that tag's
\* trimmed content, also when that is empty; without one it is the trimmed
\* plain title.
C9_OgTitleAlwaysWins ==
    \A r \in Requests :
        LET rq  == req[r]
            doc == rq.fetchRes.doc
        IN  Scraped(rq) =>
                rq.out[1].body.meta.Title =
                    IF OgTitles(doc) # << >>
                    THEN TrimSpace(ContentOf(OgTitles(doc)[1]))
                    ELSE PlainTitle(doc)

\* C9 as amended: the title is the trimmed content of the first og:title
\* tag when that is non-empty; in every other case (no such tag, no content
\* attribute, empty or blank content) it is the trimmed plain title.
C9_OgTitleUnlessEmpty ==
    \A r \in Requests :
        LET rq  == req[r]
            doc == rq.fetchRes.doc
        IN  Scraped(rq) =>
                rq.out[1].body.meta.Title =
                    IF /\ OgTitles(doc) # << >>
                       /\ TrimSpace(ContentOf(OgTitles(doc)[1])) # << >>
                    THEN TrimSpace(ContentOf(OgTitles(doc)[1]))
                    ELSE PlainTitle(doc)

\* a page with a blank og:title and a plain title got the plain title, and
\* a page with og:title " Hi " and a plain title would get "Hi"
C9_Witness ==
    \E r \in Requests :
        /\ Scraped(req[r])
        /\ req[r].fetchRes.doc = <<Meta("property", "og:title", <<" ">>), Title(<<" ", "T", "\n">>)>>
        /\ req[r].out[1].body.meta.Title = <<"T">>
        /\ scrapeTitle(<<Title(<<" ", "T", "\n">>), Meta("property", "og:title", <<" ", "H", "i", " ">>)>>) = <<"H", "i">>

\* the contents of the og:image tags that have one, in document order
OgImageContents(doc) ==
    LET has(n) == "content" \in DOMAIN n.attrs
        sel == SelectSeq(Find(doc, "meta", "property", "og:image"), has)
    IN  [i \in 1..Len(sel) |-> sel[i].attrs.content]

\* the img elements with a src attribute, in document order
ImgsWithSrc(doc) ==
    LET has(n) == "src" \in DOMAIN n.attrs
    IN  SelectSeq(Find(doc, "img", "", ""), has)

\* src, resolved against the URL of the page
Resolved(base, src) == URLString(ResolveReference(base, Parse(src)))

\* C10 as claimed: images is the og:image contents when there are any, and
\* otherwise the resolved src of every img element.
C10_ImagesEveryImg ==
    \A r \in Requests :
        LET rq   == req[r]
            doc  == rq.fetchRes.doc
            imgs == ImgsWithSrc(doc)
        IN  Scraped(rq) =>
                rq.out[1].body.meta.Images =
                    IF OgImageContents(doc) # << >>
                    THEN OgImageContents(doc)
                    ELSE [i \in 1..Len(imgs) |->
                             Resolved(rq.parsedURL, imgs[i].attrs.src)]

\* C10 as amended: images is the og:image contents when there are any, and
\* otherwise the resolved src of every img element whose src parses as a
\* URL, in document order; "/a.png" on https://x.test/p gives
\* https://x.test/a.png.
C10_ImagesEveryParsedImg ==
    \A r \in Requests :
        LET rq   == req[r]
            doc  == rq.fetchRes.doc
            ok(n) == ~Parse(n.attrs.src).err
            imgs == SelectSeq(ImgsWithSrc(doc), ok)
        IN  Scraped(rq) =>
                /\ rq.out[1].body.meta.Images =
                       IF OgImageContents(doc) # << >>
                       THEN OgImageContents(doc)
                       ELSE [i \in 1..Len(imgs) |->
                                Resolved(rq.parsedURL, imgs[i].attrs.src)]
                /\ rq.rawURL = URL_PAGE /\ doc = <<Img(<<"/", "a", ".", "p", "n", "g">>), Img(<<"b", ".", "p", "n", "g">>)>> =>
                       rq.out[1].body.meta.Images = <<<<"h", "t", "t", "p", "s", ":", "/", "/", "x", ".", "t", "e", "s", "t", "/", "a", ".", "p", "n", "g">>, <<"h", "t", "t", "p", "s", ":", "/", "/", "x", ".", "t", "e", "s", "t", "/", "b", ".", "p", "n", "g">>>>

\* a page with an unparseable and a relative img, and no og:image
C10_Witness ==
    \E r \in Requests :
        /\ Scraped(req[r])
        /\ req[r].rawURL = URL_PAGE
        /\ req[r].fetchRes.doc = <<Img(<<"%", ".", "p", "n", "g">>), Img(<<"/", "a", ".", "p", "n", "g">>)>>
        /\ req[r].out[1].body.meta.Images = <<<<"h", "t", "t", "p", "s", ":", "/", "/", "x", ".", "t", "e", "s", "t", "/", "a", ".", "p", "n", "g">>>>

\* C11: in every 200 response every element of images is an absolute image
\* URL, non-empty with a scheme and a host, whichever tier produced it.
C11_ImagesAbsolute ==
    \A r \in Requests :
        LET rq == req[r] IN
        rq.pc = "done" /\ rq.out[1].status = StatusOK =>
            \A i \in 1..Len(rq.out[1].body.meta.Images) :
                AbsoluteURL(rq.out[1].body.meta.Images[i])

\* the request URL is one of the special video provider: its host contains
\* youtube.com or youtu.be
SpecialProvider(raw) ==
    LET u == ParseRequestURI(raw)
    IN  /\ ~u.err
        /\ \/ Contains(Hostname(u), <<"y", "o", "u", "t", "u", "b", "e", ".", "c", "o", "m">>)
           \/ Contains(Hostname(u), <<"y", "o", "u", "t", "u", ".", "b", "e">>)

\* C12: the outbound calls of a request go out one after the other, each of
\* embed, data and generic at most once; the data call only after the embed
\* call failed, for a special-provider URL and a non-empty provider key; the
\* generic fetch only after every provider call made has failed; and a URL
\* that is not the special provider's causes no provider call.
C12_TiersInOrder ==
    \A r \in Requests :
        LET rq      == req[r]
            special == SpecialProvider(rq.rawURL)
        IN
        /\ rq.calls \in {<< >>, <<"embed">>, <<"embed", "data">>,
                         <<"embed", "generic">>, <<"generic">>,
                         <<"embed", "data", "generic">>}
        /\ rq.pc \in {"embed", "data", "fetch"} =>
               rq.calls[Len(rq.calls)] = (IF rq.pc = "fetch" THEN "generic" ELSE rq.pc)
        /\ Called(rq, "embed") => special
        /\ Called(rq, "data") =>
               /\ EmbedFailed(rq)
               /\ special
               /\ ytAPIKey # << >>
        /\ Called(rq, "generic") =>
               /\ Called(rq, "embed") => EmbedFailed(rq)
               /\ Called(rq, "data") => DataFailed(rq)
               /\ special => Called(rq, "embed")
               /\ special /\ ytAPIKey # << >> => Called(rq, "data")
        /\ ~special => ~Called(rq, "embed") /\ ~Called(rq, "data")

\* all three tiers were used in turn, and the generic fetch answered
C12_Witness ==
    \E r \in Requests :
        /\ req[r].pc = "done"
        /\ req[r].calls = <<"embed", "data", "generic">>
        /\ req[r].out[1].status = StatusOK
        /\ ytAPIKey # << >>

\* a response is a 200 with a Metadata record, or an error status with an
\* error body and no record
WellFormedResponse(resp) ==
    \/ /\ resp.status = StatusOK
       /\ resp.body.kind = "metadata"
       /\ resp.body.error = ""
       /\ DOMAIN resp.body.meta = {"URL", "PageName", "Title", "Description", "Images"}
    \/ /\ resp.status \in {StatusBadRequest, StatusUnauthorized,
                          StatusInternalServerError, StatusBadGateway}
       /\ resp.body.kind = "error"
       /\ resp.body.error # ""
       /\ resp.body.meta = ZeroMetadata

\* nothing is written before the request is done, and then one response
OneResponse ==
    \A r \in Requests :
        /\ Len(req[r].out) = (IF req[r].pc = "done" THEN 1 ELSE 0)
        /\ \A i \in 1..Len(req[r].out) : WellFormedResponse(req[r].out[i])

\* a request that was answered does nothing more: no outbound call, no
\* second response
DoneIsFinal ==
    \A r \in Requests : req[r].pc = "done" => req'[r] = req[r]

\* C13: with every outbound call returning, every request received is
\* answered in the end, with exactly one response: a 200 carrying a Metadata
\* record or an error status carrying an error body, never both and never a
\* record after an error; after the response no outbound call is made.
C13_ExactlyOneResponse ==
    /\ \A r \in {1} :
           (req[r].pc # "idle") ~> (req[r].pc = "done" /\ Len(req[r].out) = 1)
    /\ []OneResponse
    /\ [][DoneIsFinal]_vars

\* a request answered with an error after two outbound calls
C13_Witness ==
    \E r \in Requests :
        /\ req[r].pc = "done"
        /\ req[r].calls = <<"embed", "generic">>
        /\ Len(req[r].out) = 1
        /\ req[r].out[1].status = StatusInternalServerError
        /\ req[r].out[1].body.kind = "error"

\* the record of a request that runs alone, with the same header, url and
\* replies to its outbound calls
Alone(rq) ==
    LET r0 == [IdleRequest EXCEPT !.pc = "middleware", !.key = rq.key,
                                  !.rawURL = rq.rawURL]
        r1 == IF keyRejected(r0.key, svcAPIKey)
              THEN JSON(r0, StatusUnauthorized, errorBody("invalid or missing API key"))
              ELSE [r0 EXCEPT !.pc = "handler"]
        r2 == IF r1.pc = "handler" THEN startHandler(r1) ELSE r1
        r3 == IF r2.pc = "embed" THEN afterOEmbed(r2, rq.embedRes, ytAPIKey) ELSE r2
        r4 == IF r3.pc = "data" THEN afterDataAPI(r3, rq.dataRes) ELSE r3
    IN  IF r4.pc = "fetch" THEN afterFetch(r4, rq.fetchRes) ELSE r4

\* a step is the step of one request and leaves the record of every other
\* request, and the two configured keys, as they were
OneRequestSteps ==
    /\ \E r \in Requests : \A q \in Requests \ {r} : req'[q] = req[q]
    /\ svcAPIKey' = svcAPIKey
    /\ ytAPIKey' = ytAPIKey

\* C14: requests served at the same time do not interact: the response of
\* each is the one it would have got alone, no step of a request reads or
\* writes the record of another, and the configured keys never change after
\* startup.
C14_RequestsIndependent ==
    /\ [](\A r \in Requests : req[r].pc = "done" => req[r] = Alone(req[r]))
    /\ [](svcAPIKey = ServiceKey)
    /\ [][OneRequestSteps]_vars

\* two requests for different URLs were both in flight and both answered,
\* one from the embed endpoint and one by the scraper
C14_Witness ==
    /\ Requests = {1, 2}
    /\ req[1].pc = "done" /\ req[2].pc = "done"
    /\ req[1].rawURL = URL_WATCH /\ req[2].rawURL = URL_PAGE
    /\ req[1].calls = <<"embed">> /\ req[2].calls = <<"generic">>
    /\ req[1].out[1].status = StatusOK /\ req[2].out[1].status = StatusOK
    /\ req[1].out[1].body.meta.URL = URL_WATCH
    /\ req[2].out[1].body.meta.URL = URL_PAGE

\* C15: the url of a 200 response is the raw url parameter of the request,
\* unchanged, when the embed endpoint or the generic scraper produced it,
\* and the video ID of the request URL, not the URL, when the provider API
\* produced it.
C15_URLField ==
    \A r \in Requests :
        LET rq  == req[r]
            url == rq.out[1].body.meta.URL
        IN  rq.pc = "done" /\ rq.out[1].status = StatusOK =>
                /\ rq.calls = <<"embed">> => url = rq.rawURL
                /\ Called(rq, "generic") => url = rq.rawURL
                /\ rq.calls = <<"embed", "data">> =>
                       /\ url = rq.videoID
                       /\ url # rq.rawURL
                       /\ rq.rawURL \in {URL_WATCH, URL_SHORT} => url = <<"a", "b">>
                       /\ rq.rawURL = URL_NOID => url = << >>

\* the provider API answered for https://youtu.be/ab
C15_Witness ==
    \E r \in Requests :
        /\ req[r].pc = "done"
        /\ req[r].rawURL = URL_SHORT
        /\ req[r].calls = <<"embed", "data">>
        /\ req[r].out[1].status = StatusOK
        /\ req[r].out[1].body.meta.URL = <<"a", "b">>

\* the video ID of a parsed URL as the classification is described: the path
\* without its leading slash when the host contains youtu.be, the query
\* parameter v otherwise
ClassifiedID(u) ==
    IF Contains(u.Host, <<"y", "o", "u", "t", "u", ".", "b", "e">>)
    THEN (IF u.Path # << >> /\ Head(u.Path) = "/" THEN Tail(u.Path) ELSE u.Path)
    ELSE QueryGet(u.RawQuery, <<"v">>)

\* C16: the handler treats a URL as the special provider's exactly when its
\* host contains youtube.com or youtu.be, whatever the path says; the video
\* ID is the path without its leading slash for a youtu.be host and the
\* query parameter v otherwise; a special-provider URL without an ID is
\* still served, by the provider tiers or by the scraper, and no error is
\* answered for the empty ID.
C16_Classification ==
    \A r \in Requests :
        LET rq == req[r]
            u  == rq.parsedURL
            special == \/ Contains(u.Host, <<"y", "o", "u", "t", "u", "b", "e", ".", "c", "o", "m">>)
                       \/ Contains(u.Host, <<"y", "o", "u", "t", "u", ".", "b", "e">>)
            parsed  == ParseRequestURI(rq.rawURL)
        IN  Handled(rq) /\ rq.rawURL # << >> /\ ~parsed.err =>
                /\ u = parsed
                /\ Called(rq, "embed") <=> special
                /\ special <=> rq.rawURL \in {URL_WATCH, URL_SHORT, URL_NOID, URL_PORT}
                /\ Called(rq, "data") =>
                       /\ rq.videoID = ClassifiedID(u)
                       /\ rq.rawURL \in {URL_WATCH, URL_SHORT} => rq.videoID = <<"a", "b">>
                       /\ rq.rawURL \in {URL_NOID, URL_PORT} => rq.videoID = << >>
                /\ special /\ ClassifiedID(u) = << >> /\ rq.pc = "done" =>
                       \/ rq.out[1].status = StatusOK
                       \/ Returned(rq, "generic") /\ rq.out[1] = GenericResponse(rq)

\* https://www.youtube.com/ has no ID: all three tiers ran and the scraper
\* answered
C16_Witness ==
    \E r \in Requests :
        /\ req[r].pc = "done"
        /\ req[r].rawURL = URL_NOID
        /\ req[r].videoID = << >>
        /\ req[r].calls = <<"embed", "data", "generic">>
        /\ req[r].out[1].status = StatusOK
        /\ req[r].out[1].body.meta.URL = URL_NOID

====
